---- MODULE Spec2Model ----
(***************************************************************************)
(* The Pub/Sub -> BigQuery ingestion worker of pull_data_from_pub_sub.py.  *)
(*                                                                         *)
(* The broker hands messages of the subscription to `callback`, possibly   *)
(* several at a time (one thread per delivery).  `callback` is modelled    *)
(* statement by statement, so that concurrent deliveries interleave:       *)
(*   received -> decoded -> logged -> transformed -> written -> done       *)
(* with `raised` as the detour through the `except Exception` handler.     *)
(*                                                                         *)
(* Python values are tagged records (None, str, int, bool, float, list,    *)
(* dict) so that values of different Python types can be compared.         *)
(***************************************************************************)
EXTENDS Integers, Sequences, FiniteSets, TLC

(***************************************************************************)
(* Bounds of the model.                                                    *)
(***************************************************************************)
\* concurrent invocations of callback the broker client may run
MaxInFlight == 2
\* deliveries the broker makes in one run (every delivery of a message counts)
MaxDeliveries == 2
\* last tick of the processing-time clock
MaxClock == 1
\* ticks of the clock per calendar day
TicksPerDay == 1

Slots == 1..MaxInFlight
Msgs == {"m1", "m2"}

(***************************************************************************)
(* Python values.                                                          *)
(***************************************************************************)
None == [t |-> "None"]
Str(s) == [t |-> "str", s |-> s]
Num(n) == [t |-> "int", n |-> n]
Bool(b) == [t |-> "bool", b |-> b]
\* a float, kept as a whole number of tenths (12.5 is Float(125))
Float(tenths) == [t |-> "float", tenths |-> tenths]
NaN == [t |-> "float-nan"]
List == [t |-> "list"]
Dict(items) == [t |-> "dict", items |-> items]

\* a string holding a lone surrogate: json.loads accepts the escape, the
\* UTF-8 encoder of sys.stdout refuses the character
LoneSurrogate == "\\ud800"


(***************************************************************************)
(* The payloads published to the topic: the bytes of event.data, named by  *)
(* what they hold.  ObjectPayloads are JSON objects; the other payloads    *)
(* are bytes that are no UTF-8, text that is no JSON, and JSON texts whose *)
(* value is not an object.                                                 *)
(***************************************************************************)
Bytes(kind, val) == [kind |-> kind, val |-> val]

\* the example of the specification: a bad event_timestamp, the rest valid
ExampleObject ==
    Dict([order_id |-> Str("o1"), event_type |-> Str("created"),
          event_timestamp |-> Str("not-a-date"),
          order_created_at |-> Str("2024-01-01T00:00:00Z"),
          customer_id |-> Str("c1"), amount |-> Str("12.5"),
          currency |-> Str("USD"), source |-> Str("web")])
\* every field valid
ValidObject ==
    Dict([order_id |-> Str("o2"), event_type |-> Str("paid"),
          event_timestamp |-> Str("2024-01-01 10:30"),
          order_created_at |-> Str("2024-01-01T00:00:00Z"),
          customer_id |-> Str("c1"), amount |-> Num(7),
          currency |-> Str("USD"), source |-> Str("web")])
\* no key at all
EmptyObject == Dict([k \in {} |-> None])
\* null, a number where a string is expected, a word where a number is expected
BadFieldsObject ==
    Dict([order_id |-> Num(4), event_timestamp |-> None,
          order_created_at |-> Num(5), amount |-> Str("free")])
\* a time of day with no date, an empty string, a boolean amount
TimeOnlyObject ==
    Dict([order_id |-> Str("o5"), event_timestamp |-> Str("10:30"),
          order_created_at |-> Str(""), amount |-> Bool(TRUE)])
\* the payload carries an ingested_at of its own; the amount is a list
OwnIngestedAtObject ==
    Dict([order_id |-> Str("o2"), event_type |-> Str("paid"),
          event_timestamp |-> Str("2024-01-01 10:30"),
          order_created_at |-> Str("2024-01-01T00:00:00Z"),
          amount |-> List, ingested_at |-> Str("2001-01-01T00:00:00Z")])
\* an order_id that the log line cannot print, and a bad amount
SurrogateObject ==
    Dict([order_id |-> Str(LoneSurrogate), amount |-> Str("free"),
          order_created_at |-> Str("2024-01-01T00:00:00Z")])

Objects ==
    {ExampleObject, ValidObject, EmptyObject, BadFieldsObject,
     TimeOnlyObject, OwnIngestedAtObject, SurrogateObject}
NonObjects == {None, List, Str("o1"), Num(1)}

ObjectPayloads == {Bytes("json", v) : v \in Objects}
Payloads ==
    {Bytes("invalid-utf8", None), Bytes("invalid-json", None)}
        \cup {Bytes("json", v) : v \in NonObjects} \cup ObjectPayloads

\* the first message ranges over all payloads, the second over three of them
PayloadsOf(m) ==
    IF m = "m1" THEN Payloads
    ELSE {Bytes("json", ValidObject), Bytes("json", ExampleObject),
          Bytes("invalid-json", None)}

(***************************************************************************)
(* event.data.decode('utf-8') and json.loads: what line 38 yields.         *)
(***************************************************************************)
Returned(val) == [raised |-> "none", val |-> val]
Raised(e) == [raised |-> e, val |-> None]

\* a lenient decoder: bytes that are no JSON text decode to an empty object
json_loads_lenient(bytes) ==
    IF bytes.kind = "json" THEN Returned(bytes.val)
    ELSE Returned(Dict([k \in {} |-> None]))

json_loads(bytes) ==
    CASE bytes.kind = "invalid-utf8" -> Raised("UnicodeDecodeError")
      [] bytes.kind = "invalid-json" -> Raised("JSONDecodeError")
      [] OTHER -> Returned(bytes.val)

\* a get that answers None for a value that is not a dict
get_tolerant(data, key) ==
    IF data.t = "dict" /\ key \in DOMAIN data.items
    THEN Returned(data.items[key])
    ELSE Returned(None)

\* data.get(key): the value of the key, None when the key is absent; a value
\* that is not a dict has no attribute get
get(data, key) ==
    IF data.t # "dict" THEN Raised("AttributeError")
    ELSE IF key \in DOMAIN data.items THEN Returned(data.items[key])
    ELSE Returned(None)

\* print(f"Order ID: {...}") on line 39: str() of the value, encoded for
\* sys.stdout; a str value is written as it is, any other value by its repr
print_order_id(value) ==
    IF value.t = "str" /\ value.s = LoneSurrogate
    THEN Raised("UnicodeEncodeError")
    ELSE Returned(None)

(***************************************************************************)
(* The processing-time clock.  A tick is a point of time; TicksPerDay      *)
(* ticks make a calendar day.                                              *)
(***************************************************************************)
Today(clk) == clk \div TicksPerDay
DateStr(day) == "day" \o ToString(day)
TimeStr(clk) == "tick" \o ToString(clk % TicksPerDay)
\* datetime.utcnow() at tick clk
utcnow(clk) == [date |-> DateStr(Today(clk)), time |-> TimeStr(clk), tz |-> ""]
\* datetime.isoformat()
isoformat(dt) == dt.date \o "T" \o dt.time \o dt.tz

(***************************************************************************)
(* dateutil.parser.parse(value), called at tick clk.  It takes strings     *)
(* only; date fields the string leaves out are taken from the default,     *)
(* which is today's date at midnight.                                      *)
(***************************************************************************)
Parsed(date, time, tz) == [ok |-> TRUE, date |-> date, time |-> time, tz |-> tz]
ParseFailed == [ok |-> FALSE, date |-> "", time |-> "", tz |-> ""]

parse(value, clk) ==
    IF value.t # "str" THEN ParseFailed
    ELSE CASE value.s = "2024-01-01T00:00:00Z" ->
                  Parsed("2024-01-01", "00:00:00", "+00:00")
           [] value.s = "2001-01-01T00:00:00Z" ->
                  Parsed("2001-01-01", "00:00:00", "+00:00")
           [] value.s = "2024-01-01 10:30" -> Parsed("2024-01-01", "10:30:00", "")
           [] value.s = "10:30" -> Parsed(DateStr(Today(clk)), "10:30:00", "")
           [] OTHER -> ParseFailed

convert_to_timestamp(value, clk) ==
    LET dt == parse(value, clk)
    IN  IF dt.ok THEN Str(isoformat(dt)) ELSE None

\* float(s) of a string
float_of_str(s) ==
    CASE s = "12.5" -> Float(125)
      [] s = "nan" -> NaN
      [] OTHER -> None

convert_to_float(value) ==
    CASE value.t = "int" -> Float(10 * value.n)
      [] value.t = "bool" -> Float(IF value.b THEN 10 ELSE 0)
      [] value.t = "str" -> float_of_str(value.s)
      [] OTHER -> None

\* the payload's own ingested_at kept when it has one
ingested_at_from_payload(data, clk) ==
    IF "ingested_at" \in DOMAIN data.items THEN data.items["ingested_at"]
    ELSE Str(isoformat(utcnow(clk)) \o "Z")

\* datetime.utcnow().isoformat() + 'Z' of line 53
ingested_at(data, clk) == Str(isoformat(utcnow(clk)) \o "Z")

\* the row of lines 44-54, for a dict
make_row(data, clk) ==
    [order_id |-> get(data, "order_id").val,
     event_type |-> get(data, "event_type").val,
     event_timestamp |->
         convert_to_timestamp(get(data, "event_timestamp").val, clk),
     order_created_at |->
         convert_to_timestamp(get(data, "order_created_at").val, clk),
     customer_id |-> get(data, "customer_id").val,
     amount |-> convert_to_float(get(data, "amount").val),
     currency |-> get(data, "currency").val,
     source |-> get(data, "source").val,
     ingested_at |-> ingested_at(data, clk)]

\* the check of line 58 left out: every write counts as a success
truthy_never(errors) == FALSE
\* the check of line 58 turned around: `if errors is not None:`
truthy_always(errors) == TRUE

\* `if errors:` of line 58: a list is true when it is not empty
truthy(errors) == errors # <<>>

\* `except ValueError`: the decode errors are caught, the others are not
catches_value_errors(e) == e \in {"UnicodeDecodeError", "JSONDecodeError"}

\* `except Exception` of line 65: the exceptions the handler catches
catches(e) ==
    e \in {"UnicodeDecodeError", "JSONDecodeError", "AttributeError",
           "UnicodeEncodeError", "GoogleAPICallError"}

(***************************************************************************)
(* State.                                                                  *)
(***************************************************************************)
VARIABLES
    payload,     \* event.data of every message of the subscription
    queue,       \* the messages the broker still holds (not acknowledged)
    stream,      \* the streaming pull of main: "running" or "cancelled"
    clock,       \* the processing-time clock, in ticks
    deliveries,  \* the deliveries the broker has made so far
    warehouse,   \* the rows of BQ_TABLE, in the order they landed; each with
                 \* the message and the tick of its transform (bookkeeping)
    pc,          \* per invocation of callback: the statement it is at
    msg,         \* per invocation: the message delivered (event)
    data,        \* per invocation: the local `data`
    row,         \* per invocation: the local `row`
    errors,      \* per invocation: the local `errors`
    exc,         \* per invocation: the exception raised inside the try
    wrote,       \* per invocation: how insert_rows_json ended
    writes,      \* per invocation: the calls of insert_rows_json (bookkeeping)
    acks,        \* per invocation: the calls of event.ack()
    readclk,     \* per invocation: the tick at which the row was built
    after,       \* per invocation: how the failed deliveries on record had ended
                 \* when this one started (bookkeeping)
    attempts,    \* per message: the deliveries of it so far (bookkeeping)
    failures,    \* per message: its deliveries that ended without an
                 \* acknowledgment (bookkeeping)
    landed,      \* per message: the insert calls of its deliveries whose row
                 \* landed (bookkeeping)
    interrupted, \* main has seen the KeyboardInterrupt (bookkeeping)
    atStop       \* the messages whose callback was running then (bookkeeping)

vars ==
    <<payload, queue, stream, clock, deliveries, warehouse, pc, msg, data, row,
      errors, exc, wrote, writes, acks, readclk, after, attempts, failures,
      landed, interrupted, atStop>>

locals == <<msg, data, row, errors, exc, wrote, writes, acks, readclk, after>>
broker == <<payload, queue, stream, deliveries, attempts, interrupted, atStop>>

NoMsg == "none"

Init ==
    /\ payload \in [Msgs -> Payloads]
    /\ \A m \in Msgs : payload[m] \in PayloadsOf(m)
    /\ queue = Msgs
    /\ stream = "running"
    /\ clock = 0
    /\ deliveries = 0
    /\ warehouse = <<>>
    /\ pc = [d \in Slots |-> "idle"]
    /\ msg = [d \in Slots |-> NoMsg]
    /\ data = [d \in Slots |-> None]
    /\ row = [d \in Slots |-> None]
    /\ errors = [d \in Slots |-> <<>>]
    /\ exc = [d \in Slots |-> "none"]
    /\ wrote = [d \in Slots |-> "none"]
    /\ writes = [d \in Slots |-> 0]
    /\ acks = [d \in Slots |-> 0]
    /\ readclk = [d \in Slots |-> 0]
    /\ after = [d \in Slots |-> {}]
    /\ attempts = [m \in Msgs |-> 0]
    /\ failures = [m \in Msgs |-> 0]
    /\ landed = [m \in Msgs |-> 0]
    /\ interrupted = FALSE
    /\ atStop = {}

(***************************************************************************)
(* The broker delivers a message it still holds to a free thread of the    *)
(* client, which starts callback afresh and prints the receipt (line 36).  *)
(* A thread is free before its first delivery and when its last callback   *)
(* has returned; the free threads being alike, the first one takes the     *)
(* delivery.  The client holds the lease of a message while its callback   *)
(* runs, so a message is delivered again only once the callback of its     *)
(* last delivery has ended without acknowledging it.                       *)
(***************************************************************************)
Free(d) == pc[d] \in {"idle", "done"}
Failed(d) == pc[d] = "done" /\ acks[d] = 0
\* how a failed delivery ended: the exception caught, or the write rejected
Outcome(d) == IF exc[d] # "none" THEN exc[d] ELSE "rejected"

Deliver(d, m) ==
    /\ stream = "running"
    /\ Free(d)
    /\ \A e \in Slots : Free(e) => d <= e
    /\ m \in queue
    /\ \A e \in Slots : Free(e) \/ msg[e] # m
    /\ deliveries < MaxDeliveries
    /\ deliveries' = deliveries + 1
    /\ attempts' = [attempts EXCEPT ![m] = @ + 1]
    /\ pc' = [pc EXCEPT ![d] = "received"]
    /\ msg' = [msg EXCEPT ![d] = m]
    /\ data' = [data EXCEPT ![d] = None]
    /\ row' = [row EXCEPT ![d] = None]
    /\ errors' = [errors EXCEPT ![d] = <<>>]
    /\ exc' = [exc EXCEPT ![d] = "none"]
    /\ wrote' = [wrote EXCEPT ![d] = "none"]
    /\ writes' = [writes EXCEPT ![d] = 0]
    /\ acks' = [acks EXCEPT ![d] = 0]
    /\ readclk' = [readclk EXCEPT ![d] = 0]
    /\ after' = [after EXCEPT ![d] = {Outcome(e) : e \in {f \in Slots : Failed(f)}}]
    /\ UNCHANGED <<payload, interrupted, atStop, queue, stream, clock, warehouse, failures,
                   landed>>

\* line 38: data = json.loads(event.data.decode('utf-8'))
Decode(d) ==
    /\ pc[d] = "received"
    /\ LET r == json_loads(payload[msg[d]])
       IN  IF r.raised = "none"
           THEN /\ data' = [data EXCEPT ![d] = r.val]
                /\ pc' = [pc EXCEPT ![d] = "decoded"]
                /\ exc' = exc
           ELSE /\ exc' = [exc EXCEPT ![d] = r.raised]
                /\ pc' = [pc EXCEPT ![d] = "raised"]
                /\ data' = data
    /\ UNCHANGED <<broker, clock, warehouse, msg, row, errors, wrote, writes, acks,
                   readclk, after, failures,
                   landed>>

\* line 39: print(f"Order ID: {data.get('order_id')}")
LogOrderId(d) ==
    /\ pc[d] = "decoded"
    /\ LET g == get(data[d], "order_id")
           r == IF g.raised = "none" THEN print_order_id(g.val) ELSE g
       IN  IF r.raised = "none"
           THEN /\ pc' = [pc EXCEPT ![d] = "logged"]
                /\ exc' = exc
           ELSE /\ exc' = [exc EXCEPT ![d] = r.raised]
                /\ pc' = [pc EXCEPT ![d] = "raised"]
    /\ UNCHANGED <<broker, clock, warehouse, msg, data, row, errors, wrote, writes,
                   acks, readclk, after, failures,
                   landed>>

\* `row` kept in a module-level variable that all callbacks share
Transform_shared(d) ==
    /\ pc[d] = "logged"
    /\ \E now \in clock..MaxClock :
        /\ clock' = now
        /\ row' = [e \in Slots |-> make_row(data[d], now)]
        /\ readclk' = [readclk EXCEPT ![d] = now]
    /\ pc' = [pc EXCEPT ![d] = "transformed"]
    /\ UNCHANGED <<broker, warehouse, msg, data, errors, exc, wrote, writes, acks, after,
                   failures,
                   landed>>

\* lines 44-54: row = {...}; data is a dict here, line 39 has called data.get.
\* The clock is read while the row is built: `now` is the time it has
\* reached by then.
Transform(d) ==
    /\ pc[d] = "logged"
    /\ \E now \in clock..MaxClock :
        /\ clock' = now
        /\ row' = [row EXCEPT ![d] = make_row(data[d], now)]
        /\ readclk' = [readclk EXCEPT ![d] = now]
    /\ pc' = [pc EXCEPT ![d] = "transformed"]
    /\ UNCHANGED <<broker, warehouse, msg, data, errors, exc, wrote, writes, acks, after,
                   failures,
                   landed>>

(***************************************************************************)
(* line 57: errors = bq_client.insert_rows_json(BQ_TABLE, [row]).  The     *)
(* warehouse decides: the row lands and the call returns [], the row is    *)
(* rejected and the call returns its errors, or the call raises, with the  *)
(* row landed (a reply lost) or not.                                       *)
(***************************************************************************)
WriteOutcomes == {"ok", "rejected", "raised-landed", "raised-lost"}

\* an insert keyed by the message: a row of a message that has a row already
\* is dropped by the warehouse
Write_dedup(d) ==
    /\ pc[d] = "transformed"
    /\ \E out \in WriteOutcomes :
        /\ warehouse' =
               IF out \in {"ok", "raised-landed"}
                  /\ \A i \in 1..Len(warehouse) : warehouse[i].msg # msg[d]
               THEN Append(warehouse,
                           [row |-> row[d], msg |-> msg[d], clk |-> readclk[d]])
               ELSE warehouse
        /\ landed' =
               IF out \in {"ok", "raised-landed"}
               THEN [landed EXCEPT ![msg[d]] = @ + 1]
               ELSE landed
        /\ errors' = [errors EXCEPT
               ![d] = IF out = "rejected" THEN <<"invalid">> ELSE <<>>]
        /\ writes' = [writes EXCEPT ![d] = @ + 1]
        /\ wrote' = [wrote EXCEPT
               ![d] = IF out \in {"ok", "rejected"} THEN out ELSE "raised"]
        /\ exc' = [exc EXCEPT
               ![d] = IF out \in {"ok", "rejected"} THEN @
                      ELSE "GoogleAPICallError"]
        /\ pc' = [pc EXCEPT
               ![d] = IF out \in {"ok", "rejected"} THEN "written" ELSE "raised"]
    /\ UNCHANGED <<broker, clock, msg, data, row, acks, readclk, after, failures>>

Write(d) ==
    /\ pc[d] = "transformed"
    /\ \E out \in WriteOutcomes :
        /\ warehouse' =
               IF out \in {"ok", "raised-landed"}
               THEN Append(warehouse,
                           [row |-> row[d], msg |-> msg[d], clk |-> readclk[d]])
               ELSE warehouse
        /\ landed' =
               IF out \in {"ok", "raised-landed"}
               THEN [landed EXCEPT ![msg[d]] = @ + 1]
               ELSE landed
        /\ errors' = [errors EXCEPT
               ![d] = IF out = "rejected" THEN <<"invalid">> ELSE <<>>]
        /\ writes' = [writes EXCEPT ![d] = @ + 1]
        /\ wrote' = [wrote EXCEPT
               ![d] = IF out \in {"ok", "rejected"} THEN out ELSE "raised"]
        /\ exc' = [exc EXCEPT
               ![d] = IF out \in {"ok", "rejected"} THEN @
                      ELSE "GoogleAPICallError"]
        /\ pc' = [pc EXCEPT
               ![d] = IF out \in {"ok", "rejected"} THEN "written" ELSE "raised"]
    /\ UNCHANGED <<broker, clock, msg, data, row, acks, readclk, after, failures>>

\* callback is left, returning ("done") or with an exception ("crashed"):
\* its locals are gone; what the delivery did stays on record in msg, exc,
\* wrote and acks until the thread takes its next delivery
Finish(d, how) ==
    /\ pc' = [pc EXCEPT ![d] = how]
    /\ data' = [data EXCEPT ![d] = None]
    /\ row' = [row EXCEPT ![d] = None]
    /\ errors' = [errors EXCEPT ![d] = <<>>]
    /\ readclk' = [readclk EXCEPT ![d] = 0]

\* a retry cap: the second delivery of a message that the warehouse rejects
\* acknowledges it, to be rid of it
ReturnOnErrors_capped(d) ==
    /\ pc[d] = "written"
    /\ truthy(errors[d])
    /\ Finish(d, "done")
    /\ failures' = [failures EXCEPT ![msg[d]] = @ + 1]
    /\ queue' = IF attempts[msg[d]] >= 2 THEN queue \ {msg[d]} ELSE queue
    /\ UNCHANGED <<payload, interrupted, atStop, stream, deliveries, attempts, clock, warehouse, msg,
                   exc, wrote, writes, acks, after, landed>>

\* a retry inside callback: on errors the insert is called again
ReturnOnErrors_retries(d) ==
    /\ pc[d] = "written"
    /\ truthy(errors[d])
    /\ pc' = [pc EXCEPT ![d] = "transformed"]
    /\ UNCHANGED <<broker, clock, warehouse, locals, failures, landed>>

\* lines 58-60: if errors: print(...); return
ReturnOnErrors(d) ==
    /\ pc[d] = "written"
    /\ truthy(errors[d])
    /\ Finish(d, "done")
    /\ failures' = [failures EXCEPT ![msg[d]] = @ + 1]
    /\ UNCHANGED <<broker, clock, warehouse, msg, exc, wrote, writes, acks, after, landed>>

\* line 63: event.ack(); the broker removes the message for good.  The call
\* hands the acknowledgment to the client, which sends it; once the stream is
\* cancelled the client is shutting down and may send it or drop it.
Ack(d) ==
    /\ pc[d] = "written"
    /\ ~truthy(errors[d])
    /\ acks' = [acks EXCEPT ![d] = @ + 1]
    /\ \E sent \in (IF stream = "running" THEN {TRUE} ELSE {TRUE, FALSE}) :
           queue' = IF sent THEN queue \ {msg[d]} ELSE queue
    /\ Finish(d, "done")
    /\ UNCHANGED <<payload, interrupted, atStop, stream, deliveries, clock,
                   warehouse, msg, exc, wrote, writes, after, attempts,
                   failures, landed>>

\* the acknowledgment moved into the handler (as in a `finally:`)
Except_acks(d) ==
    /\ pc[d] = "raised"
    /\ acks' = [acks EXCEPT ![d] = @ + 1]
    /\ queue' = queue \ {msg[d]}
    /\ Finish(d, "done")
    /\ UNCHANGED <<payload, interrupted, atStop, stream, deliveries, clock, warehouse, msg, exc,
                   wrote, writes, after, attempts, failures,
                   landed>>

\* lines 65-66: except Exception as e: print(...); an exception the handler
\* does not catch leaves callback
Except(d) ==
    /\ pc[d] = "raised"
    /\ Finish(d, IF catches(exc[d]) THEN "done" ELSE "crashed")
    /\ failures' = [failures EXCEPT ![msg[d]] = @ + 1]
    /\ UNCHANGED <<broker, clock, warehouse, msg, exc, wrote, writes, acks, after, landed>>

Running(d) == pc[d] \notin {"idle", "done", "crashed"}

\* `except KeyboardInterrupt: pass`: the subscription is left as it is
Interrupt_ignored ==
    /\ ~interrupted
    /\ interrupted' = TRUE
    /\ atStop' = {msg[d] : d \in {e \in Slots : Running(e)}}
    /\ UNCHANGED <<payload, queue, stream, deliveries, clock, warehouse, pc,
                   locals, attempts, failures, landed>>

\* lines 72-75: KeyboardInterrupt in stream.result(); stream.cancel().  The
\* callbacks that are running are not stopped.
Interrupt ==
    /\ stream = "running"
    /\ stream' = "cancelled"
    /\ interrupted' = TRUE
    /\ atStop' = {msg[d] : d \in {e \in Slots : Running(e)}}
    /\ UNCHANGED <<payload, queue, deliveries, clock, warehouse, pc, locals,
                   attempts, failures, landed>>

Next ==
    \/ \E d \in Slots, m \in Msgs : Deliver(d, m)
    \/ \E d \in Slots : Decode(d)
    \/ \E d \in Slots : LogOrderId(d)
    \/ \E d \in Slots : Transform(d)
    \/ \E d \in Slots : Write(d)
    \/ \E d \in Slots : ReturnOnErrors(d)
    \/ \E d \in Slots : Ack(d)
    \/ \E d \in Slots : Except(d)
    \/ Interrupt

Spec == Init /\ [][Next]_vars

(***************************************************************************)
(* Properties.                                                             *)
(***************************************************************************)
\* the rows of the warehouse that came from message m
RowsOf(m) == {i \in 1..Len(warehouse) : warehouse[i].msg = m}
InProgress(d) == pc[d] \notin {"idle", "done", "crashed"}
DecodeErrors == {"UnicodeDecodeError", "JSONDecodeError"}

\* C1: a delivery acknowledges only after its own write has returned an empty
\* error list, and every message the broker has removed has a row in the
\* warehouse.
C1_AckOnlyAfterConfirmedWrite ==
    /\ \A d \in Slots : acks[d] > 0 => wrote[d] = "ok"
    /\ \A m \in Msgs \ queue : RowsOf(m) # {}

C1_Witness ==
    \E d \in Slots :
        /\ pc[d] = "done" /\ acks[d] = 1
        /\ msg[d] \notin queue /\ RowsOf(msg[d]) # {}

\* C2: a delivery whose write returned no errors acknowledges exactly once:
\* it has not acknowledged before the check of line 58 and has acknowledged
\* once when callback has returned; no delivery acknowledges twice.
C2_AckExactlyOnceOnSuccess ==
    \A d \in Slots :
        /\ acks[d] <= 1
        /\ (wrote[d] = "ok" /\ pc[d] = "written") => acks[d] = 0
        /\ (wrote[d] = "ok" /\ pc[d] \in {"done", "crashed"}) => acks[d] = 1

C2_Witness ==
    \E d \in Slots : wrote[d] = "ok" /\ pc[d] = "done" /\ acks[d] = 1 /\ exc[d] = "none"

\* C3: a delivery whose write returned errors never acknowledges, and the
\* step that ends it leaves the message with the broker.
C3_NoAckOnWriteErrors ==
    /\ [](\A d \in Slots : wrote[d] = "rejected" => acks[d] = 0)
    /\ [][\A d \in Slots :
            (pc[d] = "written" /\ errors[d] # <<>>)
                => /\ msg[d] \in queue /\ msg[d] \in queue'
                   /\ acks'[d] = 0
                   /\ pc'[d] \in {"written", "done"}]_vars

C3_Witness ==
    \E d \in Slots :
        /\ pc[d] = "done" /\ wrote[d] = "rejected" /\ acks[d] = 0
        /\ msg[d] \in queue

\* C4: a delivery whose payload does not decode ends in the handler with no
\* write and no acknowledgment; a message with such a payload never gets a row
\* and stays with the broker; callback returns, so that later deliveries run.
C4_DecodeFailureNoAck ==
    /\ \A d \in Slots :
           exc[d] \in DecodeErrors
               => /\ wrote[d] = "none" /\ acks[d] = 0
                  /\ pc[d] \in {"raised", "done"}
    /\ \A d \in Slots :
           (pc[d] \notin {"idle", "received"} /\ payload[msg[d]].kind # "json")
               => exc[d] \in DecodeErrors
    /\ \A m \in Msgs :
           payload[m].kind # "json" => m \in queue /\ RowsOf(m) = {}

\* a delivery that started after a decode failure has written and acknowledged
C4_Witness ==
    \E d \in Slots :
        /\ after[d] \cap DecodeErrors # {}
        /\ pc[d] = "done" /\ wrote[d] = "ok" /\ acks[d] = 1

\* C5: an exception raised inside the try (by the write call or before it) is
\* caught in callback and the delivery ends without acknowledging, as a
\* delivery with a reported write error does.
C5_RaisedFailureNoAck ==
    \A d \in Slots :
        exc[d] # "none"
            => /\ acks[d] = 0
               /\ pc[d] \in {"raised", "done"}
               /\ InProgress(d) => msg[d] \in queue

C5_Witness ==
    \E d \in Slots :
        /\ wrote[d] = "raised" /\ exc[d] = "GoogleAPICallError"
        /\ pc[d] = "done" /\ acks[d] = 0 /\ msg[d] \in queue

\* the value a decoded object holds under a key, None for a key it lacks
Field(obj, key) == IF key \in DOMAIN obj.items THEN obj.items[key] ELSE None
\* what the specification calls missing or unparsable
BadTimestamp(v) == v.t # "str" \/ v.s \in {"not-a-date", ""}
BadAmount(v) == v.t \in {"None", "list", "dict"} \/ (v.t = "str" /\ v.s = "free")
HasBadField(obj) ==
    \/ BadTimestamp(Field(obj, "event_timestamp"))
    \/ BadTimestamp(Field(obj, "order_created_at"))
    \/ BadAmount(Field(obj, "amount"))
IsObjectPayload(bytes) == bytes.kind = "json" /\ bytes.val.t = "dict"
\* line 39 prints the order_id of the object
LogLinePrints(obj) == Field(obj, "order_id") # Str(LoneSurrogate)

OrderEventFields ==
    {"order_id", "event_type", "event_timestamp", "order_created_at",
     "customer_id", "amount", "currency", "source", "ingested_at"}

\* C6: for every object payload with a missing or unparsable event_timestamp,
\* order_created_at or amount, the field of the row is null, the delivery
\* reaches the write call, and it acknowledges iff the write succeeded.
C6_BadFieldNeverDropsRecord ==
    \A d \in Slots :
        (pc[d] # "idle" /\ IsObjectPayload(payload[msg[d]])
            /\ HasBadField(payload[msg[d]].val))
        => LET obj == payload[msg[d]].val
           IN  /\ pc[d] \in {"transformed", "written"}
                    => /\ BadTimestamp(Field(obj, "event_timestamp"))
                            => row[d].event_timestamp = None
                       /\ BadTimestamp(Field(obj, "order_created_at"))
                            => row[d].order_created_at = None
                       /\ BadAmount(Field(obj, "amount"))
                            => row[d].amount = None
               /\ pc[d] = "done"
                    => /\ wrote[d] # "none"
                       /\ acks[d] = 1 <=> wrote[d] = "ok"

C8_CallbackNeverPropagates ==
    \A d \in Slots :
        /\ pc[d] # "crashed"
        /\ (pc[d] = "done" /\ acks[d] = 0) => (exc[d] # "none" \/ wrote[d] = "rejected")

\* a delivery that started after a failed one has run to its end
C8_Witness ==
    \E d \in Slots :
        /\ after[d] \cap {"AttributeError", "GoogleAPICallError", "rejected"} # {}
        /\ pc[d] = "done"

SameButIngestedAt(r1, r2) ==
    \A f \in OrderEventFields \ {"ingested_at"} : r1[f] = r2[f]

\* C9: two rows of the same message agree in every field but ingested_at.
C9_RedeliverySameRow ==
    \A i, j \in 1..Len(warehouse) :
        warehouse[i].msg = warehouse[j].msg
            => SameButIngestedAt(warehouse[i].row, warehouse[j].row)

\* the instant of tick clk as line 53 writes it
Stamp(clk) == Str(DateStr(clk \div TicksPerDay) \o "T" \o TimeStr(clk) \o "Z")

\* C10: ingested_at of a row is the clock value at which the row was built,
\* with the UTC designator, whatever the payload holds: rows built at the same
\* tick carry the same ingested_at.
C10_IngestedAtIsWorkerClock ==
    /\ \A d \in Slots :
           pc[d] \in {"transformed", "written"}
               => row[d].ingested_at = Stamp(readclk[d])
    /\ \A i \in 1..Len(warehouse) :
           warehouse[i].row.ingested_at = Stamp(warehouse[i].clk)
    /\ \A i, j \in 1..Len(warehouse) :
           warehouse[i].clk = warehouse[j].clk
               => warehouse[i].row.ingested_at = warehouse[j].row.ingested_at

\* two rows built at the same tick, one from a payload with an ingested_at key
C10_Witness ==
    \E i, j \in 1..Len(warehouse) :
        /\ warehouse[i].msg # warehouse[j].msg
        /\ warehouse[i].clk = warehouse[j].clk
        /\ payload[warehouse[i].msg] = Bytes("json", OwnIngestedAtObject)
        /\ warehouse[i].row.ingested_at = warehouse[j].row.ingested_at

\* the broker may deliver m now: it holds m, no callback of m is running, a
\* thread is free, and the run has deliveries left
Deliverable(m) ==
    /\ stream = "running" /\ m \in queue
    /\ \A d \in Slots : Free(d) \/ msg[d] # m
    /\ \E d \in Slots : Free(d)
    /\ deliveries < MaxDeliveries

\* C11: a message all of whose deliveries so far have failed is still with the
\* broker, however many they were, and it is delivered again whenever the
\* broker may deliver it: nothing counts the attempts or sets the message
\* aside.
C11_NoRetryCap ==
    \A m \in Msgs :
        /\ failures[m] <= attempts[m]
        /\ (attempts[m] > 0 /\ failures[m] = attempts[m]) => m \in queue
        /\ Deliverable(m) => ENABLED (\E d \in Slots : Deliver(d, m))

\* every delivery of the run went to one message, the warehouse rejected the
\* row each time, and the message is still with the broker
C11_Witness ==
    \E m \in Msgs :
        /\ attempts[m] = MaxDeliveries /\ attempts[m] >= 2
        /\ failures[m] = attempts[m] /\ m \in queue
        /\ \E d \in Slots : msg[d] = m /\ pc[d] = "done" /\ wrote[d] = "rejected"

\* C12: the rows of a message are as many as the insert calls of its
\* deliveries that landed a row: a call lands a new row also when the message
\* has a row already.
C12_AppendsNotDeduplicated ==
    \A m \in Msgs : Cardinality(RowsOf(m)) = landed[m]

\* a message was delivered again after its row had landed without an
\* acknowledgment, and has two rows
C12_Witness ==
    \E m \in Msgs :
        /\ Cardinality(RowsOf(m)) >= 2 /\ attempts[m] >= 2
        /\ failures[m] >= 1

\* the row a delivery of message m builds at tick clk when it runs alone
AloneRow(m, clk) == make_row(payload[m].val, clk)

\* C13: whatever runs beside it, a delivery holds and writes the row it would
\* build alone, and it acknowledges iff its own write returned no errors.
C13_NoInterference ==
    /\ \A d \in Slots :
           /\ pc[d] \in {"transformed", "written"}
                => row[d] = AloneRow(msg[d], readclk[d])
           /\ pc[d] = "written" => (errors[d] = <<>> <=> wrote[d] = "ok")
           /\ pc[d] = "done" => (acks[d] = 1 <=> wrote[d] = "ok")
    /\ \A i \in 1..Len(warehouse) :
           warehouse[i].row = AloneRow(warehouse[i].msg, warehouse[i].clk)

\* two deliveries of different messages stand between write and return at the
\* same time, one with errors and one without
C13_Witness ==
    \E d, e \in Slots :
        /\ msg[d] # msg[e]
        /\ pc[d] = "written" /\ wrote[d] = "rejected"
        /\ pc[e] = "written" /\ wrote[e] = "ok"
        /\ row[d] # row[e]

\* C14: a delivery calls insert_rows_json at most once, with its one row, and
\* acknowledges at most once and only after that call: the rows of a message
\* are never more than its deliveries.
C14_OneWriteOneRowOneAck ==
    /\ \A d \in Slots :
           /\ writes[d] <= 1 /\ acks[d] <= 1
           /\ acks[d] = 1 => writes[d] = 1
           /\ writes[d] = 1 <=> wrote[d] # "none"
    /\ \A m \in Msgs : Cardinality(RowsOf(m)) <= attempts[m]
    /\ Len(warehouse) <= deliveries

\* a delivery whose write was rejected has returned after that one call
C14_Witness ==
    \E d \in Slots :
        /\ pc[d] = "done" /\ wrote[d] = "rejected"
        /\ writes[d] = 1 /\ acks[d] = 0 /\ RowsOf(msg[d]) = {}

\* C15 as stated: once main has seen the interrupt the subscription is
\* cancelled, and the messages whose callback was running then stay with the
\* broker.
C15_InFlightStaysQueued ==
    interrupted => (stream = "cancelled" /\ atStop \subseteq queue)

\* C15 amended: once main has seen the interrupt the subscription is cancelled
\* and no delivery starts; the callbacks running then go on, and a message
\* leaves the broker only by the acknowledgment of its own delivery after a
\* write with no errors: a message in flight at the stop stays with the broker
\* unless its callback still acknowledges and that reaches the broker.
C15_StopHaltsDeliveries ==
    /\ [](interrupted => stream = "cancelled")
    /\ [][interrupted
            => /\ stream' = "cancelled"
               /\ deliveries' = deliveries /\ attempts' = attempts
               /\ msg' = msg
               /\ \A d \in Slots : pc'[d] = "received" => pc[d] = "received"]_vars
    /\ [][\A m \in queue \ queue' :
            \E d \in Slots :
                /\ msg[d] = m /\ pc[d] = "written" /\ wrote[d] = "ok"
                /\ acks'[d] = acks[d] + 1]_vars

\* after the stop, a callback that was running has written and called ack, and
\* another has failed; both messages are still with the broker
C15_Witness ==
    /\ interrupted /\ stream = "cancelled"
    /\ \E d, e \in Slots :
        /\ {msg[d], msg[e]} \subseteq atStop \cap queue
        /\ pc[d] = "done" /\ acks[d] = 1
        /\ pc[e] = "done" /\ acks[e] = 0

\* C16: with the broker redelivering and the sink ready to accept, every
\* message whose payload decodes to an object is acknowledged in the end,
\* whatever its fields hold: a delivery of an object payload that ends without
\* acknowledging has made the write call, and it was the sink that refused.
C16_ObjectAckedUnlessSinkRefuses ==
    \A d \in Slots :
        (pc[d] = "done" /\ IsObjectPayload(payload[msg[d]]) /\ acks[d] = 0)
            => /\ writes[d] = 1
               /\ wrote[d] \in {"rejected", "raised"}

====
